---- MODULE Spec2Model ----
(***************************************************************************)
(* A model of the kokos theme classifier: TextAnalyst (TextAnalyst.py) and *)
(* the Flask endpoint that serves it (nApi.py).                            *)
(*                                                                         *)
(* Texts are sequences of one-character strings.  The three library        *)
(* tokenizers the code relies on (nltk word_tokenize, the scikit-learn     *)
(* TfidfVectorizer analyzer, the spaCy pipeline) are modelled by what they *)
(* do to such a text.  Python's None is the value None below, a Python     *)
(* string s is Str(s).  TF-IDF weights are integers (ten times the         *)
(* scikit-learn weight, logarithms rounded to one decimal) and a cosine    *)
(* similarity is kept as the exact fraction of its square, which orders    *)
(* non-negative similarities exactly as the similarities themselves.       *)
(***************************************************************************)
EXTENDS Integers, Sequences, FiniteSets, TLC

VARIABLES
    source,      \* what is at json_file_path when the process starts
    pc,          \* position of the process in nApi.py's module body
    data,        \* TextAnalyst.data
    categories,  \* TextAnalyst.categories
    documents,   \* the local `documents` of __init__
    vectorizer,  \* TextAnalyst.vectorizer
    lastCall,    \* the call whose result its caller is holding, if any
    log,         \* the error events the latest step wrote to the log
    earlier      \* an earlier get_text_theme call a caller kept the result of

vars == <<source, pc, data, categories, documents, vectorizer, lastCall, log, earlier>>

(***************************************************************************)
(* Bounds of the model.                                                    *)
(***************************************************************************)
MaxThemes == 2      \* (category, theme) pairs in a taxonomy
MaxInputWords == 2  \* words in a text given to a call

(***************************************************************************)
(* Python values.                                                          *)
(***************************************************************************)
None == [isNone |-> TRUE, str |-> <<>>]
Str(s) == [isNone |-> FALSE, str |-> s]

(***************************************************************************)
(* Characters.                                                             *)
(***************************************************************************)
LowerLetters == {"a", "b", "c", "d", "n", "s", "z"}
UpperLetters == {"A", "N"}
Digits == {"1", "2"}
PunctChars == {","}
SpaceChar == " "

\* str.isalnum / the regular expression class \w, on one character
IsWordChar(c) == c \in LowerLetters \cup UpperLetters \cup Digits

\* str.lower, on one character
LowerChar(c) == IF c = "A" THEN "a" ELSE IF c = "N" THEN "n" ELSE c

\* str.lower
LowerStr(s) == [i \in 1..Len(s) |-> LowerChar(s[i])]

\* str.isnumeric
IsNumeric(s) == s # <<>> /\ \A i \in 1..Len(s) : s[i] \in Digits

\* str.isalnum
IsAlnum(s) == s # <<>> /\ \A i \in 1..Len(s) : IsWordChar(s[i])

\* ' '.join(tokens)
RECURSIVE JoinSpace(_)
JoinSpace(tokens) ==
    IF tokens = <<>> THEN <<>>
    ELSE IF Len(tokens) = 1 THEN tokens[1]
    ELSE tokens[1] \o <<SpaceChar>> \o JoinSpace(Tail(tokens))

Flush(cur, acc) == IF cur = <<>> THEN acc ELSE Append(acc, cur)

\* One left-to-right pass over a text: maximal runs of word characters are
\* tokens, white space separates, every other character ends the run before
\* it and, when keepPunct, is a token of its own.
RECURSIVE Scan(_, _, _, _)
Scan(s, cur, acc, keepPunct) ==
    IF s = <<>> THEN Flush(cur, acc)
    ELSE LET c == Head(s) IN
         IF IsWordChar(c) THEN Scan(Tail(s), Append(cur, c), acc, keepPunct)
         ELSE IF c = SpaceChar THEN Scan(Tail(s), <<>>, Flush(cur, acc), keepPunct)
         ELSE Scan(Tail(s), <<>>,
                   IF keepPunct THEN Append(Flush(cur, acc), <<c>>)
                   ELSE Flush(cur, acc),
                   keepPunct)

\* nltk.tokenize.word_tokenize: words and punctuation marks, in order
word_tokenize(s) == Scan(s, <<>>, <<>>, TRUE)

\* TfidfVectorizer().build_analyzer(): lowercase, then the token pattern
\* (?u)\b\w\w+\b, which keeps the runs of two or more word characters
Analyzer(s) == SelectSeq(Scan(LowerStr(s), <<>>, <<>>, FALSE), LAMBDA t : Len(t) >= 2)

(***************************************************************************)
(* The spaCy pipeline ru_core_news_sm, on the model's alphabet.            *)
(***************************************************************************)
\* the token texts of nlp(doc)
NlpTokens(s) == Scan(s, <<>>, <<>>, TRUE)

\* Token.is_stop: the lowercased text is in the language's stop list
StopWords == {<<"a">>, <<"a", "s">>}
is_stop(t) == LowerStr(t) \in StopWords

\* Token.is_punct
is_punct(t) == Len(t) = 1 /\ t[1] \in PunctChars

\* Token.lemma_: the dictionary form; inflected forms end in "s" here
lemma_(t) ==
    IF Len(t) >= 3 /\ t[Len(t)] = "s" THEN SubSeq(t, 1, Len(t) - 1) ELSE t

(***************************************************************************)
(* Exact arithmetic on non-negative fractions.                             *)
(***************************************************************************)
RECURSIVE Gcd(_, _)
Gcd(a, b) == IF b = 0 THEN a ELSE Gcd(b, a % b)

\* the fraction num/den in lowest terms (den > 0)
Frac(num, den) ==
    LET g == Gcd(num, den) IN [num |-> num \div g, den |-> den \div g]

ZeroSim == [num |-> 0, den |-> 1]

\* a/b < c/d for a, c >= 0 and b, d > 0, by the continued-fraction expansion
\* (no product is formed, so nothing overflows)
RECURSIVE LessFrac(_, _, _, _)
LessFrac(a, b, c, d) ==
    LET q1 == a \div b
        q2 == c \div d
        r1 == a % b
        r2 == c % d
    IN  IF q1 # q2 THEN q1 < q2
        ELSE IF r2 = 0 THEN FALSE
        ELSE IF r1 = 0 THEN TRUE
        ELSE LessFrac(d, r2, b, r1)

\* x > y on similarities
SimGreater(x, y) == LessFrac(y.num, y.den, x.num, x.den)

(***************************************************************************)
(* scikit-learn: TfidfVectorizer and cosine_similarity.                    *)
(***************************************************************************)
\* TfidfVectorizer(): not fitted, no vocabulary_, no idf_
EmptyVec == [t \in {} |-> 0]
NewVectorizer == [fitted |-> FALSE, vocabulary_ |-> {}, idf_ |-> EmptyVec]

\* 10 * ln(k), rounded, for the k a bounded corpus produces
Ln10 == <<0, 7, 11, 14, 16, 18, 19, 21, 22, 23, 24, 25, 26, 26, 27, 28>>

TokenSet(tokens) == {tokens[i] : i \in 1..Len(tokens)}

\* the number of times token t occurs in a token list
Count(t, tokens) == Cardinality({i \in 1..Len(tokens) : tokens[i] = t})

\* smoothed idf of token t over the fit documents: ln((1+n)/(1+df)) + 1
Idf(t, docs) ==
    LET n == Len(docs)
        df == Cardinality({i \in 1..n : t \in TokenSet(Analyzer(docs[i]))})
    IN  10 + Ln10[1 + n] - Ln10[1 + df]

\* TfidfVectorizer.fit_transform(documents): the fitted vectorizer, or
\* ValueError("empty vocabulary") when no document holds a token
fit_transform(v, docs) ==
    LET vocab == UNION {TokenSet(Analyzer(docs[i])) : i \in 1..Len(docs)}
    IN  IF vocab = {}
        THEN [raised |-> TRUE, exc |-> "ValueError: empty vocabulary", vectorizer |-> v]
        ELSE [raised |-> FALSE, exc |-> "",
              vectorizer |-> [fitted |-> TRUE, vocabulary_ |-> vocab,
                              idf_ |-> [t \in vocab |-> Idf(t, docs)]]]

\* TfidfVectorizer.transform([doc]): term frequency times idf over the
\* vocabulary (the L2 normalisation cancels in the cosine); NotFittedError
\* on a vectorizer that was never fitted, AttributeError on None
transform(v, doc) ==
    IF ~v.fitted THEN [raised |-> TRUE, exc |-> "NotFittedError", vec |-> EmptyVec]
    ELSE IF doc.isNone
    THEN [raised |-> TRUE, exc |-> "AttributeError: NoneType has no lower", vec |-> EmptyVec]
    ELSE [raised |-> FALSE, exc |-> "",
          vec |-> [t \in v.vocabulary_ |-> Count(t, Analyzer(doc.str)) * v.idf_[t]]]

RECURSIVE SumOver(_, _)
SumOver(f, S) ==
    IF S = {} THEN 0
    ELSE LET t == CHOOSE x \in S : TRUE IN f[t] + SumOver(f, S \ {t})

Dot(a, b) == SumOver([t \in DOMAIN a |-> a[t] * b[t]], DOMAIN a)

\* cosine_similarity(a, b)[0][0], squared: 0 when either vector is zero
cosine_similarity(a, b) ==
    LET na == Dot(a, a)
        nb == Dot(b, b)
        ab == Dot(a, b)
    IN  IF na = 0 \/ nb = 0 THEN ZeroSim ELSE Frac(ab * ab, na * nb)

(***************************************************************************)
(* TextAnalyst.  Every method is an operator from its arguments (and the   *)
(* fields of self it reads) to what it returns and what it logs.           *)
(***************************************************************************)
\* A taxonomy file holds a JSON object: an ordered list of categories, each
\* an ordered list of themes, each an ordered list of phrases.
JsonObject(items) == [isNone |-> FALSE, isDict |-> TRUE, items |-> items]
JsonArray == [isNone |-> FALSE, isDict |-> FALSE, items |-> <<>>]
NoData == [isNone |-> TRUE, isDict |-> FALSE, items |-> <<>>]

LogEvent(where, exc) == [where |-> where, exc |-> exc]

\* load_data(json_file_path): the parsed JSON, or None (logged) when the
\* file is missing or does not decode
load_data(src) ==
    IF src.kind = "missing"
    THEN [ret |-> NoData, log |-> <<LogEvent("load_data", "FileNotFoundError")>>]
    ELSE IF src.kind = "invalid"
    THEN [ret |-> NoData, log |-> <<LogEvent("load_data", "JSONDecodeError")>>]
    ELSE [ret |-> src.json, log |-> <<>>]

\* list(self.data.keys())
Keys(d) == [i \in 1..Len(d.items) |-> d.items[i].name]

\* self.data[category]
Lookup(d, category) ==
    (CHOOSE i \in 1..Len(d.items) : d.items[i].name = category)

\* the (category, theme) pairs in the order the nested loops visit them
RECURSIVE PairsFrom(_, _)
PairsFrom(d, cats) ==
    IF cats = <<>> THEN <<>>
    ELSE LET themes == d.items[Lookup(d, Head(cats))].themes
         IN  [j \in 1..Len(themes) |->
                 [category |-> Head(cats), theme |-> themes[j].name,
                  phrases |-> themes[j].phrases]]
             \o PairsFrom(d, Tail(cats))

Pairs(self) == PairsFrom(self.data, self.categories)

\* all phrases of a list of pairs, in order
RECURSIVE PhrasesOf(_)
PhrasesOf(pairs) ==
    IF pairs = <<>> THEN <<>> ELSE Head(pairs).phrases \o PhrasesOf(Tail(pairs))

\* a Python list, or None
List(l) == [isNone |-> FALSE, list |-> l]
NoList == [isNone |-> TRUE, list |-> <<>>]

\* the document prepare_data builds from one phrase
PhraseDocument(n_gram) == JoinSpace(word_tokenize(n_gram))

\* iterating self.data[category] raises when the value is no mapping
Iterable(self) ==
    \A i \in 1..Len(self.categories) :
        self.data.items[Lookup(self.data, self.categories[i])].isDict

\* prepare_data(): one document per phrase, or None (logged) when walking
\* the taxonomy raises
prepare_data(self) ==
    IF ~Iterable(self)
    THEN [ret |-> NoList, log |-> <<LogEvent("prepare_data", "TypeError")>>]
    ELSE LET phrases == PhrasesOf(Pairs(self))
         IN  [ret |-> List([i \in 1..Len(phrases) |-> PhraseDocument(phrases[i])]),
              log |-> <<>>]

\* train_vectorizer(documents): fits self.vectorizer; None, an empty list and
\* a failed fit are logged and leave the vectorizer as it was
train_vectorizer(self, docs) ==
    IF docs.isNone \/ docs.list = <<>>
    THEN [vectorizer |-> self.vectorizer,
          log |-> <<LogEvent("train_vectorizer", "ValueError: empty list")>>]
    ELSE LET r == fit_transform(self.vectorizer, docs.list)
         IN  IF r.raised
             THEN [vectorizer |-> self.vectorizer,
                   log |-> <<LogEvent("train_vectorizer", r.exc)>>]
             ELSE [vectorizer |-> r.vectorizer, log |-> <<>>]

\* tokenize_text(input_text): the tokens joined by spaces; None (logged) for
\* an empty or missing text
tokenize_text(input_text) ==
    IF input_text.isNone \/ input_text.str = <<>>
    THEN [ret |-> None, log |-> <<LogEvent("tokenize_text", "ValueError: empty text")>>]
    ELSE [ret |-> Str(JoinSpace(word_tokenize(input_text.str))), log |-> <<>>]

exclusion_list == {<<"n", "a", "n">>}

\* the filter of clean_text: TRUE when the token is skipped
Skipped(t) ==
    \/ is_stop(t)
    \/ is_punct(t)
    \/ IsNumeric(t)
    \/ ~IsAlnum(t)
    \/ t \in exclusion_list

\* the try block of clean_text: the lowercased lemmas of the tokens that are
\* kept, joined by spaces; the pipeline raises on a non-string
TryCleanText(doc) ==
    IF doc.isNone
    THEN [raised |-> TRUE, exc |-> "TypeError", ret |-> None, log |-> <<>>]
    ELSE LET kept == SelectSeq(NlpTokens(doc.str), LAMBDA t : ~Skipped(t))
         IN  [raised |-> FALSE, exc |-> "",
              ret |-> Str(JoinSpace([i \in 1..Len(kept) |-> LowerStr(lemma_(kept[i]))])),
              log |-> <<>>]

\* ExceptCleanText without the handler: the exception leaves clean_text
ExceptCleanTextNothing(r) == r

\* the except clause of clean_text: any exception is logged and "" returned
ExceptCleanText(r) ==
    IF r.raised
    THEN [raised |-> FALSE, exc |-> "", ret |-> Str(<<>>),
          log |-> r.log \o <<LogEvent("clean_text", r.exc)>>]
    ELSE r

\* clean_text(doc): what it returns, what it logs and whether an exception
\* leaves it
clean_text(doc) == ExceptCleanText(TryCleanText(doc))

\* the text a theme is compared by: its phrases joined by spaces
ThemeText(pair) == JoinSpace(pair.phrases)

\* the document of a theme that is handed to vectorizer.transform
ThemeDocument(pair) == Str(ThemeText(pair))

\* the document of the input that is handed to vectorizer.transform
InputDocument(input_text) == tokenize_text(clean_text(input_text).ret).ret

\* cosine similarity of the input vector and a theme's vector
Similarity(v, input_vector, pair) ==
    cosine_similarity(input_vector, transform(v, ThemeDocument(pair)).vec)

\* InitialBest with the threshold one below zero
InitialBestBelowZero == [max |-> [num |-> -1, den |-> 1], category |-> "", theme |-> ""]

\* the state of the loop before the first pair
InitialBest == [max |-> ZeroSim, category |-> "", theme |-> ""]

\* UpdateBest that selects the pair and forgets to raise the maximum
UpdateBestKeepMax(best, similarity, pair) ==
    IF SimGreater(similarity, best.max)
    THEN [max |-> best.max, category |-> pair.category, theme |-> pair.theme]
    ELSE best

\* UpdateBest that compares with >= instead of >
UpdateBestOnTie(best, similarity, pair) ==
    IF ~SimGreater(best.max, similarity)
    THEN [max |-> similarity, category |-> pair.category, theme |-> pair.theme]
    ELSE best

\* one pass of the loop body: the pair replaces the selection when its
\* similarity is strictly greater than the maximum so far
UpdateBest(best, similarity, pair) ==
    IF SimGreater(similarity, best.max)
    THEN [max |-> similarity, category |-> pair.category, theme |-> pair.theme]
    ELSE best

RECURSIVE Select(_, _, _, _)
Select(v, input_vector, pairs, best) ==
    IF pairs = <<>> THEN best
    ELSE Select(v, input_vector, Tail(pairs),
                UpdateBest(best, Similarity(v, input_vector, Head(pairs)), Head(pairs)))

ClassificationError == [error |-> "classification error"]

\* Transformed when fit_transform is called where transform is meant
Refitted(v, doc) ==
    IF doc.isNone THEN v ELSE fit_transform(v, <<doc.str>>).vectorizer

\* self.vectorizer after self.vectorizer.transform([doc]): transform reads
\* the vocabulary and the weights and writes neither
Transformed(v, doc) == v

\* the try block of get_text_theme: the result object, or the exception
\* that ends the block
TryClassify(self, input_text) ==
    LET clean == clean_text(input_text)
        tokenized == tokenize_text(clean.ret)
        iv == transform(self.vectorizer, InputDocument(input_text))
        inner == clean.log \o tokenized.log
    IN  IF clean.raised
        THEN [raised |-> TRUE, exc |-> clean.exc, ret |-> None, log |-> clean.log]
        ELSE IF iv.raised
        THEN [raised |-> TRUE, exc |-> iv.exc, ret |-> None, log |-> inner]
        ELSE LET best == Select(self.vectorizer, iv.vec, Pairs(self), InitialBest)
             IN  [raised |-> FALSE, exc |-> "",
                  ret |-> [category |-> best.category, theme |-> best.theme],
                  log |-> inner]

\* Except without the handler: the exception leaves the method
ExceptNothing(r) == r

\* Except that puts the message of the exception into the error object
ExceptWithMessage(r) ==
    IF r.raised
    THEN [raised |-> FALSE, exc |-> "", ret |-> [error |-> r.exc],
          log |-> r.log \o <<LogEvent("get_text_theme", r.exc)>>]
    ELSE r

\* the except clause of get_text_theme: any exception is logged and becomes
\* the error object
Except(r) ==
    IF r.raised
    THEN [raised |-> FALSE, exc |-> "", ret |-> ClassificationError,
          log |-> r.log \o <<LogEvent("get_text_theme", r.exc)>>]
    ELSE r

\* get_text_theme(input_text): what it returns (the decoded JSON object),
\* what it logs, whether an exception leaves it, and self.vectorizer after it
get_text_theme(self, input_text) ==
    LET r == Except(TryClassify(self, input_text))
    IN  [raised |-> r.raised, ret |-> r.ret, log |-> r.log,
         vectorizer |-> Transformed(self.vectorizer, InputDocument(input_text))]

(***************************************************************************)
(* The inputs of the model: taxonomy files and texts.                      *)
(***************************************************************************)
CategoryNames == <<"A", "B", "C", "D", "E", "F">>
ThemeNames == <<"t1", "t2", "t3", "t4", "t5", "t6">>

\* the phrase lists a theme may hold: none, "ab", "ab" and "cd", "Ab, cds",
\* and "a, 1" (no token of two or more word characters)
PhraseLists ==
    { <<>>,
      << <<"a", "b">> >>,
      << <<"a", "b">>, <<"c", "d">> >>,
      << <<"A", "b", ",", " ", "c", "d", "s">> >>,
      << <<"a", ",", " ", "1">> >> }

\* the taxonomy whose themes hold the phrase lists ps, in order, a new
\* category starting at each position of cut
Taxonomy(ps, cut) ==
    LET n == Len(ps)
        catOf(i) == 1 + Cardinality({j \in cut : j <= i})
        ncat == IF n = 0 THEN 0 ELSE 1 + Cardinality(cut)
        positions(c) == SelectSeq([i \in 1..n |-> i], LAMBDA i : catOf(i) = c)
    IN  [c \in 1..ncat |->
            [name |-> CategoryNames[c], isDict |-> TRUE,
             themes |-> [k \in 1..Len(positions(c)) |->
                            [name |-> ThemeNames[k], phrases |-> ps[positions(c)[k]]]]]]

Taxonomies ==
    UNION { {Taxonomy(ps, cut) : cut \in SUBSET (2..Len(ps))} :
            ps \in UNION {[1..n -> PhraseLists] : n \in 0..MaxThemes} }

\* {"A": {}} and {"A": 5}
EmptyCategory == <<[name |-> "A", isDict |-> TRUE, themes |-> <<>>]>>
ScalarCategory == <<[name |-> "A", isDict |-> FALSE, themes |-> <<>>]>>

Sources ==
    { [kind |-> "missing", json |-> NoData],
      [kind |-> "invalid", json |-> NoData],
      [kind |-> "json", json |-> JsonArray],
      [kind |-> "json", json |-> JsonObject(EmptyCategory)],
      [kind |-> "json", json |-> JsonObject(ScalarCategory)] }
    \cup { [kind |-> "json", json |-> JsonObject(t)] : t \in Taxonomies }

\* three taxonomy files for the runs that keep an earlier result:
\* {"A": {"t1": ["ab"], "t2": ["Ab, cds"]}},
\* {"A": {"t1": ["ab", "cd"]}, "B": {"t1": ["Ab, cds"]}} and
\* {"A": {"t1": ["a, 1"]}}, on which no vocabulary is fitted
HistorySources ==
    { [kind |-> "json", json |-> JsonObject(t)] :
        t \in { Taxonomy(<< << <<"a", "b">> >>,
                             << <<"A", "b", ",", " ", "c", "d", "s">> >> >>, {}),
                Taxonomy(<< << <<"a", "b">>, <<"c", "d">> >>,
                             << <<"A", "b", ",", " ", "c", "d", "s">> >> >>, {2}),
                Taxonomy(<< << <<"a", ",", " ", "1">> >> >>, {}) } }

\* the words of an input text: "Ab", "cds", "zz" and "a,"
InputWords ==
    { <<"A", "b">>, <<"c", "d", "s">>, <<"z", "z">>, <<"a", ",">> }

\* texts of up to MaxInputWords words, the single space get_title_and_meta
\* returns for a page without title and meta tags, and the text "Nan 12 nan"
InputTexts ==
    { JoinSpace(ws) : ws \in UNION {[1..n -> InputWords] : n \in 0..MaxInputWords} }
    \cup { <<SpaceChar>>,
           <<"N", "a", "n", " ", "1", "2", " ", "n", "a", "n">> }

\* the arguments a method may be called with: a text, or a non-string
Arguments == { Str(t) : t \in InputTexts } \cup { None }

(***************************************************************************)
(* The process: nApi.py's module body builds the analyzer, then serves.    *)
(***************************************************************************)
Self == [data |-> data, categories |-> categories, vectorizer |-> vectorizer]

NoCall == [op |-> "none", input |-> None, ret |-> None, raised |-> FALSE]

Init ==
    /\ source \in Sources
    /\ pc = "start"
    /\ data = NoData
    /\ categories = <<>>
    /\ documents = NoList
    /\ vectorizer = NewVectorizer
    /\ lastCall = NoCall
    /\ log = <<>>
    /\ earlier = NoCall

\* __init__, lines 72-81: load the taxonomy, list its categories, create the
\* vectorizer.  data.keys() raises when load_data returned None or the JSON
\* is no object: the constructor raises and the process ends.
LoadData ==
    /\ pc = "start"
    /\ LET r == load_data(source)
       IN  /\ data' = r.ret
           /\ log' = r.log
           /\ IF r.ret.isNone \/ ~r.ret.isDict
              THEN pc' = "crashed" /\ categories' = categories
              ELSE pc' = "loaded" /\ categories' = Keys(r.ret)
    /\ vectorizer' = NewVectorizer
    /\ UNCHANGED <<earlier, source, documents, lastCall>>

\* __init__, line 83
PrepareData ==
    /\ pc = "loaded"
    /\ LET r == prepare_data(Self)
       IN  documents' = r.ret /\ log' = r.log
    /\ pc' = "prepared"
    /\ UNCHANGED <<earlier, source, data, categories, vectorizer, lastCall>>

\* __init__, line 85: the constructor returns whatever train_vectorizer did
TrainVectorizer ==
    /\ pc = "prepared"
    /\ LET r == train_vectorizer(Self, documents)
       IN  vectorizer' = r.vectorizer /\ log' = r.log
    /\ pc' = "constructed"
    /\ UNCHANGED <<earlier, source, data, categories, documents, lastCall>>

\* AppRun when the server starts before the vectorizer is trained
AppRunBeforeFit ==
    /\ pc = "loaded"
    /\ pc' = "serving"
    /\ log' = <<>>
    /\ UNCHANGED <<earlier, source, data, categories, documents, vectorizer, lastCall>>

\* app.run(): requests are accepted from here on
AppRun ==
    /\ pc = "constructed"
    /\ pc' = "serving"
    /\ log' = <<>>
    /\ UNCHANGED <<earlier, source, data, categories, documents, vectorizer, lastCall>>

\* a request that arrives before app.run() listens, or after the process
\* ended, finds no server: nothing is read and nothing is returned
ConnectionRefused ==
    /\ pc # "serving"
    /\ lastCall = NoCall
    /\ lastCall' = [op |-> "refused", input |-> None, ret |-> None, raised |-> FALSE]
    /\ log' = <<>>
    /\ UNCHANGED <<earlier, source, pc, data, categories, documents, vectorizer>>

\* the caller is done with what the call returned; calls are made one
\* after the other
Return ==
    /\ lastCall # NoCall
    /\ lastCall' = NoCall
    /\ log' = <<>>
    /\ UNCHANGED <<earlier, source, pc, data, categories, documents, vectorizer>>

\* the server is up and no call is in progress
Idle == pc = "serving" /\ lastCall = NoCall

\* check_url with a url: the page text goes through get_text_theme
CheckUrl(page_content) ==
    /\ Idle
    /\ LET r == get_text_theme(Self, Str(page_content))
       IN  /\ lastCall' = [op |-> "check_url", input |-> Str(page_content),
                           ret |-> r.ret, raised |-> r.raised]
           /\ log' = r.log
           /\ vectorizer' = r.vectorizer
    /\ UNCHANGED <<earlier, source, pc, data, categories, documents>>

\* check_url without a url: status 400, the analyzer is not called
CheckUrlNoUrl ==
    /\ Idle
    /\ lastCall' = [op |-> "check_url_400", input |-> None,
                    ret |-> [error |-> "bad url"], raised |-> FALSE]
    /\ log' = <<>>
    /\ UNCHANGED <<earlier, source, pc, data, categories, documents, vectorizer>>

\* analyzer.get_text_theme(x), called directly
GetTextTheme(x) ==
    /\ Idle
    /\ LET r == get_text_theme(Self, x)
       IN  /\ lastCall' = [op |-> "get_text_theme", input |-> x,
                           ret |-> r.ret, raised |-> r.raised]
           /\ log' = r.log
           /\ vectorizer' = r.vectorizer
    /\ UNCHANGED <<earlier, source, pc, data, categories, documents>>

\* analyzer.clean_text(x), called directly
CleanText(x) ==
    /\ Idle
    /\ LET r == clean_text(x)
       IN  /\ lastCall' = [op |-> "clean_text", input |-> x, ret |-> r.ret,
                           raised |-> r.raised]
           /\ log' = r.log
    /\ UNCHANGED <<earlier, source, pc, data, categories, documents, vectorizer>>

\* analyzer.tokenize_text(x), called directly
TokenizeText(x) ==
    /\ Idle
    /\ LET r == tokenize_text(x)
       IN  /\ lastCall' = [op |-> "tokenize_text", input |-> x, ret |-> r.ret,
                           raised |-> FALSE]
           /\ log' = r.log
    /\ UNCHANGED <<earlier, source, pc, data, categories, documents, vectorizer>>

Next ==
    \/ LoadData
    \/ PrepareData
    \/ TrainVectorizer
    \/ AppRun
    \/ ConnectionRefused
    \/ Return
    \/ Idle /\ \E t \in InputTexts : CheckUrl(t)
    \/ CheckUrlNoUrl
    \/ Idle /\ \E x \in Arguments : GetTextTheme(x)
    \/ Idle /\ \E x \in Arguments : CleanText(x)
    \/ Idle /\ \E x \in Arguments : TokenizeText(x)

Spec == Init /\ [][Next]_vars

\* the caller of a get_text_theme call keeps what it returned, to compare
\* it with what a later call returns
Remember ==
    /\ lastCall.op \in {"check_url", "get_text_theme"}
    /\ earlier' = lastCall
    /\ lastCall' = NoCall
    /\ log' = <<>>
    /\ UNCHANGED <<source, pc, data, categories, documents, vectorizer>>

InitHistory == Init /\ source \in HistorySources

NextHistory == Next \/ Remember

\* the process on one of the three taxonomy files, with callers that keep
\* results
SpecHistory == InitHistory /\ [][NextHistory]_vars

(***************************************************************************)
(* What the claims speak of.                                               *)
(***************************************************************************)
Sentinel == [category |-> "", theme |-> ""]

\* the caller holds the result of a get_text_theme call
Classified == lastCall.op \in {"check_url", "get_text_theme"}

IsPair(r) == DOMAIN r = {"category", "theme"}
IsError(r) == DOMAIN r = {"error"}

\* the normalized document of the call's input
Normalized == clean_text(lastCall.input).ret.str

\* the vector of the call's input
InputVector == transform(vectorizer, tokenize_text(clean_text(lastCall.input).ret).ret)

\* the similarity of the input vector iv and a pair of the taxonomy
Sim(iv, pair) == Similarity(vectorizer, iv, pair)

Positive(x) == SimGreater(x, ZeroSim)

\* the pair is the one the call returned
Returned(pair) ==
    /\ IsPair(lastCall.ret)
    /\ pair.category = lastCall.ret.category
    /\ pair.theme = lastCall.ret.theme

\* the tokens the vectorizer sees in a text
Tokens(text) == TokenSet(Analyzer(text))

(***************************************************************************)
(* C1: whenever some pair of the taxonomy has positive similarity with the *)
(* input, get_text_theme returns a pair of the taxonomy whose similarity   *)
(* no other pair exceeds.                                                  *)
(***************************************************************************)
C1_ReturnsBestPair ==
    (Classified /\ ~InputVector.raised) =>
        LET iv == InputVector.vec
            ps == Pairs(Self)
        IN  (\E i \in 1..Len(ps) : Positive(Sim(iv, ps[i])))
            => \E i \in 1..Len(ps) :
                  /\ Returned(ps[i])
                  /\ \A j \in 1..Len(ps) : ~SimGreater(Sim(iv, ps[j]), Sim(iv, ps[i]))

\* the second pair was returned, the first one scoring positive but less
C1_Witness ==
    /\ Classified
    /\ ~InputVector.raised
    /\ LET iv == InputVector.vec
           ps == Pairs(Self)
       IN  /\ Len(ps) >= 2
           /\ Returned(ps[2])
           /\ Positive(Sim(iv, ps[1]))
           /\ SimGreater(Sim(iv, ps[2]), Sim(iv, ps[1]))

(***************************************************************************)
(* C2: the returned pair is the first pair, in iteration order, with the   *)
(* maximal similarity: every pair before it scores strictly less, so a     *)
(* later pair with an equal or lower score never replaces it.              *)
(***************************************************************************)
C2_FirstOfTies ==
    (Classified /\ ~InputVector.raised) =>
        LET iv == InputVector.vec
            ps == Pairs(Self)
        IN  \A i \in 1..Len(ps) :
               Returned(ps[i]) =>
                  /\ \A j \in 1..(i - 1) : SimGreater(Sim(iv, ps[i]), Sim(iv, ps[j]))
                  /\ \A j \in (i + 1)..Len(ps) :
                        ~SimGreater(Sim(iv, ps[j]), Sim(iv, ps[i]))

\* two pairs tie at the positive maximum and the earlier one was returned
C2_Witness ==
    /\ Classified
    /\ ~InputVector.raised
    /\ LET iv == InputVector.vec
           ps == Pairs(Self)
       IN  \E i \in 1..Len(ps) : \E j \in (i + 1)..Len(ps) :
              /\ Returned(ps[i])
              /\ Positive(Sim(iv, ps[i]))
              /\ Sim(iv, ps[j]) = Sim(iv, ps[i])

(***************************************************************************)
(* C3: on a fitted model, an input whose normalized document is not empty  *)
(* and shares no token with any theme gets the no-match sentinel, not the  *)
(* error result.                                                           *)
(***************************************************************************)
NoOverlap ==
    /\ Classified
    /\ vectorizer.fitted
    /\ Normalized # <<>>
    /\ LET ps == Pairs(Self)
       IN  \A i \in 1..Len(ps) :
              Tokens(Normalized) \cap Tokens(ThemeText(ps[i])) = {}

C3_NoOverlapSentinel == NoOverlap => lastCall.ret = Sentinel

C3_Witness == NoOverlap /\ lastCall.ret = Sentinel /\ Pairs(Self) # <<>>

(***************************************************************************)
(* C4: on a fitted model, an input whose normalized document is empty      *)
(* (the empty text among them) gets the no-match sentinel.                 *)
(***************************************************************************)
C4_EmptyInputSentinel ==
    (Classified /\ vectorizer.fitted /\ Normalized = <<>>)
    => lastCall.ret = Sentinel

(***************************************************************************)
(* C5: no exception leaves get_text_theme; it returns an object with the   *)
(* keys category and theme, or an object with the single key error, and    *)
(* the error object exactly when vectorizing the input raised.             *)
(***************************************************************************)
C5_TwoShapes ==
    Classified =>
        /\ ~lastCall.raised
        /\ IsPair(lastCall.ret) \/ IsError(lastCall.ret)
        /\ IsError(lastCall.ret) <=> InputVector.raised

\* an exception inside the call on a fitted model became the error object
C5_Witness ==
    /\ Classified
    /\ vectorizer.fitted
    /\ InputVector.raised
    /\ lastCall.ret = ClassificationError
    /\ ~lastCall.raised

(***************************************************************************)
(* C6: get_text_theme never runs on a taxonomy that is missing, is no      *)
(* mapping, or is empty.                                                   *)
(***************************************************************************)
C6_NoClassificationWithoutTaxonomy ==
    Classified => (~data.isNone /\ data.isDict /\ data.items # <<>>)

(***************************************************************************)
(* C7: when the list of fit documents is empty or could not be prepared,   *)
(* the constructor does not return an analyzer and no get_text_theme call  *)
(* is made on the vectorizer that was never fitted.                        *)
(***************************************************************************)
C7_EmptyCorpusFatal ==
    (documents.isNone \/ documents.list = <<>>)
    => (pc \notin {"constructed", "serving"} /\ ~Classified)

(***************************************************************************)
(* C8: once the startup fit has run, the vectorizer is fitted with a       *)
(* non-empty vocabulary if the taxonomy holds a non-empty phrase, and is   *)
(* not fitted if the taxonomy holds no phrase.                             *)
(***************************************************************************)
HasPhrase ==
    LET phrases == PhrasesOf(Pairs(Self))
    IN  \E k \in 1..Len(phrases) : phrases[k] # <<>>

C8_FitSucceeds ==
    pc \in {"constructed", "serving"} =>
        IF HasPhrase
        THEN vectorizer.fitted /\ vectorizer.vocabulary_ # {}
        ELSE ~vectorizer.fitted

(***************************************************************************)
(* C9: a check_url request is serviced only once the module body has run   *)
(* the whole constructor, so the analyzer it reads is the one that load,   *)
(* prepare and train produce from the taxonomy file; a request that        *)
(* arrives earlier is refused.                                             *)
(***************************************************************************)
C9_ServicedAfterInit ==
    /\ lastCall.op = "check_url" =>
          /\ pc = "serving"
          /\ data = load_data(source).ret
          /\ categories = Keys(data)
          /\ documents = prepare_data(Self).ret
          /\ vectorizer =
                train_vectorizer([Self EXCEPT !.vectorizer = NewVectorizer],
                                 documents).vectorizer
    /\ pc \in {"start", "loaded", "prepared", "constructed"} =>
          lastCall.op \in {"none", "refused"}

\* a request arrived when the taxonomy was loaded and nothing was fitted yet
C9_Witness ==
    /\ pc = "loaded"
    /\ data.items # <<>>
    /\ ~vectorizer.fitted
    /\ lastCall.op = "refused"

(***************************************************************************)
(* C10: a get_text_theme, clean_text or tokenize_text call leaves data,    *)
(* categories and the vectorizer (vocabulary and idf weights) unchanged,   *)
(* whatever it returns.                                                    *)
(***************************************************************************)
C10_CallsLeaveModelUnchanged ==
    [][lastCall'.op \in {"check_url", "get_text_theme", "clean_text", "tokenize_text"}
       => (data' = data /\ categories' = categories /\ vectorizer' = vectorizer)]_vars

\* a call on a fitted model returned a match
C10_Witness ==
    /\ lastCall.op = "get_text_theme"
    /\ vectorizer.fitted
    /\ IsPair(lastCall.ret)
    /\ lastCall.ret # Sentinel

(***************************************************************************)
(* C11: a get_text_theme call returns what an earlier get_text_theme call  *)
(* on the same input returned in the same process (same taxonomy, same     *)
(* fitted model), whatever calls were made before the earlier one or       *)
(* between the two.                                                        *)
(***************************************************************************)
C11_SameInputSameResult ==
    (Classified /\ earlier # NoCall /\ earlier.input = lastCall.input) =>
        /\ lastCall.ret = earlier.ret
        /\ lastCall.raised = earlier.raised

\* the same text was classified twice on a fitted model and matched a theme
C11_Witness ==
    /\ Classified
    /\ earlier # NoCall
    /\ earlier.input = lastCall.input
    /\ vectorizer.fitted
    /\ IsPair(lastCall.ret)
    /\ lastCall.ret # Sentinel

\* a token that is a stop word, punctuation, numeric, not alphanumeric, or
\* whose lowercased lemma is in the exclusion list
DroppedAsSaid(t) ==
    \/ is_stop(t)
    \/ is_punct(t)
    \/ IsNumeric(t)
    \/ ~IsAlnum(t)
    \/ LowerStr(lemma_(t)) \in exclusion_list

(***************************************************************************)
(* C12: clean_text drops a token if and only if it is a stop word, or is   *)
(* punctuation, or its surface form is purely numeric, or its surface form *)
(* is not alphanumeric, or its lowercased lemma is in the exclusion list;  *)
(* what it returns is the lowercased lemmas of the other tokens, in input  *)
(* order, joined by single spaces.                                         *)
(***************************************************************************)
C12_DropsListedTokens ==
    (lastCall.op = "clean_text" /\ ~lastCall.input.isNone) =>
        LET kept == SelectSeq(NlpTokens(lastCall.input.str),
                              LAMBDA t : ~DroppedAsSaid(t))
        IN  lastCall.ret =
                Str(JoinSpace([i \in 1..Len(kept) |-> LowerStr(lemma_(kept[i]))]))

(***************************************************************************)
(* C13: no exception leaves clean_text: every call returns a string, and   *)
(* the string is empty whenever the pipeline raised inside the call or     *)
(* every token of the input was dropped.                                   *)
(***************************************************************************)
C13_CleanTextNeverRaises ==
    lastCall.op = "clean_text" =>
        /\ ~lastCall.raised
        /\ ~lastCall.ret.isNone
        /\ TryCleanText(lastCall.input).raised => lastCall.ret = Str(<<>>)
        /\ (/\ ~lastCall.input.isNone
            /\ \A i \in 1..Len(NlpTokens(lastCall.input.str)) :
                   Skipped(NlpTokens(lastCall.input.str)[i]))
           => lastCall.ret = Str(<<>>)

\* clean_text was called with a non-string: the pipeline raised, the error
\* was logged and "" returned
C13_Witness ==
    /\ lastCall.op = "clean_text"
    /\ lastCall.input.isNone
    /\ lastCall.ret = Str(<<>>)
    /\ ~lastCall.raised
    /\ log = <<LogEvent("clean_text", "TypeError")>>

(***************************************************************************)
(* C14: every error result of get_text_theme is the same fixed object,     *)
(* whatever the exception and whatever the input; the exception itself is  *)
(* written to the log only.                                                *)
(***************************************************************************)
C14_FixedErrorIndicator ==
    (Classified /\ IsError(lastCall.ret)) =>
        /\ lastCall.ret = ClassificationError
        /\ log # <<>>
        /\ log[Len(log)] = LogEvent("get_text_theme", InputVector.exc)

\* a text was classified on an unfitted vectorizer: the caller holds the
\* fixed error object and the log holds the NotFittedError
C14_Witness ==
    /\ Classified
    /\ ~lastCall.input.isNone
    /\ Normalized # <<>>
    /\ lastCall.ret = ClassificationError
    /\ log # <<>>
    /\ log[Len(log)].exc = "NotFittedError"

\* a text after the tokenize-and-join pass
TokenizeAndJoin(text) == JoinSpace(word_tokenize(text))

(***************************************************************************)
(* C15: the list of documents the vectorizer is fitted on holds one        *)
(* document per phrase of the taxonomy, in taxonomy order, and each        *)
(* document is its phrase after normalization (clean_text) followed by the *)
(* tokenize-and-join pass.                                                 *)
(***************************************************************************)
C15_FitDocumentsNormalized ==
    (pc \in {"prepared", "constructed", "serving"} /\ ~documents.isNone) =>
        LET phrases == PhrasesOf(Pairs(Self))
        IN  documents.list =
                [i \in 1..Len(phrases) |->
                    TokenizeAndJoin(clean_text(Str(phrases[i])).ret.str)]

(***************************************************************************)
(* C16: every string handed to the vectorizer is an output of the          *)
(* tokenize-and-join pass: each fit document, the document of the input    *)
(* text, and the document of each theme, which is the tokenize-and-join    *)
(* pass applied to the theme's phrases joined by single spaces.            *)
(***************************************************************************)
C16_VectorizerSeesTokenized ==
    /\ (pc \in {"prepared", "constructed", "serving"} /\ ~documents.isNone) =>
          \A i \in 1..Len(documents.list) :
              documents.list[i] = TokenizeAndJoin(documents.list[i])
    /\ (Classified /\ ~InputDocument(lastCall.input).isNone) =>
          InputDocument(lastCall.input).str =
              TokenizeAndJoin(InputDocument(lastCall.input).str)
    /\ (Classified /\ ~InputVector.raised) =>
          \A i \in 1..Len(Pairs(Self)) :
              ThemeDocument(Pairs(Self)[i]).str =
                  TokenizeAndJoin(ThemeText(Pairs(Self)[i]))

====
